---- MODULE Spec2Model ----
(***************************************************************************)
(* A model of pep8ify's FixMaximumLineLength fixer                         *)
(* (src/fixes/fix_maximum_line_length.py).                                 *)
(*                                                                         *)
(* Text is a sequence of one-character strings.  A tree is a record:       *)
(*   leaf: [k |-> "leaf", id, type, value, prefix, column, was_changed]    *)
(*   node: [k |-> "node", type, children, was_changed]                     *)
(* `id` stands for Python object identity.  `column` is the column the     *)
(* parser recorded for a leaf; the fixer only ever reads it, and a leaf    *)
(* built by the fixer (Leaf(...), LParen(), RParen()) has the class        *)
(* default column 0.                                                       *)
(***************************************************************************)
EXTENDS Integers, Sequences, FiniteSets, TLC

(***************************************************************************)
(* Text helpers (Python str operations used by the fixer)                  *)
(***************************************************************************)
Rep(c, n) == [i \in 1..n |-> c]

IsSpace(c) == c \in {" ", "\n"}

Count(s, c) == Cardinality({i \in 1..Len(s) : s[i] = c})

\* str.index as a 0-based position; -1 stands for the ValueError Python raises.
IndexOf(s, c) ==
    IF \E i \in 1..Len(s) : s[i] = c
    THEN (CHOOSE i \in 1..Len(s) : s[i] = c /\ \A j \in 1..(i - 1) : s[j] # c) - 1
    ELSE -1

Slice(s, a, b) == IF a > b THEN <<>> ELSE SubSeq(s, a, b)

RECURSIVE Split(_, _)
Split(s, c) ==
    LET i == IndexOf(s, c)
    IN IF i < 0 THEN <<s>>
       ELSE <<Slice(s, 1, i)>> \o Split(Slice(s, i + 2, Len(s)), c)

LStrip(s) ==
    IF \A i \in 1..Len(s) : IsSpace(s[i]) THEN <<>>
    ELSE Slice(s, CHOOSE i \in 1..Len(s) :
                      ~IsSpace(s[i]) /\ \A j \in 1..(i - 1) : IsSpace(s[j]), Len(s))

RStrip(s) ==
    IF \A i \in 1..Len(s) : IsSpace(s[i]) THEN <<>>
    ELSE Slice(s, 1, CHOOSE i \in 1..Len(s) :
                         ~IsSpace(s[i]) /\ \A j \in (i + 1)..Len(s) : IsSpace(s[j]))

Strip(s) == LStrip(RStrip(s))

RECURSIVE Join(_, _)
Join(ss, sep) ==
    IF ss = <<>> THEN <<>>
    ELSE IF Len(ss) = 1 THEN ss[1]
    ELSE ss[1] \o sep \o Join(Tail(ss), sep)

RECURSIVE Concat(_)
Concat(ss) == IF ss = <<>> THEN <<>> ELSE Head(ss) \o Concat(Tail(ss))

\* line.replace(u'#', u'', 1)
ReplaceFirstHash(s) ==
    LET i == IndexOf(s, "#")
    IN IF i < 0 THEN s ELSE Slice(s, 1, i) \o Slice(s, i + 2, Len(s))

IsBlank(s) == \A i \in 1..Len(s) : IsSpace(s[i])

MAX_CHARS == 79

(***************************************************************************)
(* textwrap.TextWrapper as the fixer constructs it: only width and the two *)
(* indents are given, so break_long_words and drop_whitespace keep their   *)
(* default True.  Text here holds no tab and no hyphen, and starts with a   *)
(* word.                                                                   *)
(***************************************************************************)
Munge(text) == [i \in 1..Len(text) |-> IF IsSpace(text[i]) THEN " " ELSE text[i]]

\* Length of the maximal run at the head of s that is all-space or space-free.
RunLen(s, sp) ==
    IF \A i \in 1..Len(s) : (s[i] = " ") = sp THEN Len(s)
    ELSE (CHOOSE i \in 1..Len(s) :
              (s[i] = " ") # sp /\ \A j \in 1..(i - 1) : (s[j] = " ") = sp) - 1

RECURSIVE SplitChunks(_)
SplitChunks(text) ==
    IF text = <<>> THEN <<>>
    ELSE LET n == RunLen(text, Head(text) = " ")
         IN <<Slice(text, 1, n)>> \o SplitChunks(Slice(text, n + 1, Len(text)))

\* The inner `while chunks:` loop: move chunks to the line while they fit.
RECURSIVE FillLine(_, _, _, _)
FillLine(chunks, cur_line, cur_len, width) ==
    IF chunks # <<>> /\ cur_len + Len(Head(chunks)) <= width
    THEN FillLine(Tail(chunks), Append(cur_line, Head(chunks)),
                  cur_len + Len(Head(chunks)), width)
    ELSE [line |-> cur_line, len |-> cur_len, rest |-> chunks]

\* _handle_long_word with break_long_words = False: the word goes whole on a
\* line of its own.
HandleLongWordWhole(chunks, cur_line, cur_len, width) ==
    IF cur_line = <<>> THEN [line |-> <<Head(chunks)>>, rest |-> Tail(chunks)]
    ELSE [line |-> cur_line, rest |-> chunks]

\* _handle_long_word with break_long_words = True.
HandleLongWord(chunks, cur_line, cur_len, width) ==
    LET space_left == IF width < 1 THEN 1 ELSE width - cur_len
        chunk == Head(chunks)
    IN [line |-> Append(cur_line, Slice(chunk, 1, space_left)),
        rest |-> <<Slice(chunk, space_left + 1, Len(chunk))>> \o Tail(chunks)]

RECURSIVE WrapChunks(_, _, _, _, _)
WrapChunks(chunks, lines, width, initial_indent, subsequent_indent) ==
    IF chunks = <<>> THEN lines
    ELSE
      LET indent == IF lines # <<>> THEN subsequent_indent ELSE initial_indent
          w == width - Len(indent)
          c1 == IF IsBlank(Head(chunks)) /\ lines # <<>> THEN Tail(chunks) ELSE chunks
          f == FillLine(c1, <<>>, 0, w)
          h == IF f.rest # <<>> /\ Len(Head(f.rest)) > w
               THEN HandleLongWord(f.rest, f.line, f.len, w)
               ELSE [line |-> f.line, rest |-> f.rest]
          l1 == IF h.line # <<>> /\ IsBlank(h.line[Len(h.line)])
                THEN Slice(h.line, 1, Len(h.line) - 1) ELSE h.line
          lines1 == IF l1 # <<>> THEN Append(lines, indent \o Concat(l1)) ELSE lines
      IN WrapChunks(h.rest, lines1, width, initial_indent, subsequent_indent)

\* TextWrapper(width, initial_indent, subsequent_indent).wrap(text).
\* _wrap_chunks raises ValueError("invalid width") for width <= 0, whatever the
\* text; WrapRaises tells that case.
WrapRaises(width) == width <= 0

Wrap(text, width, initial_indent, subsequent_indent) ==
    WrapChunks(SplitChunks(Munge(text)), <<>>, width, initial_indent, subsequent_indent)

\* A TextWrapper and what its wrap(text) gave: no lines when it raised.
NoWrapper ==
    [made |-> FALSE, text |-> <<>>, width |-> 0, initial_indent |-> <<>>,
     subsequent_indent |-> <<>>, raised |-> FALSE, lines |-> <<>>]

TextWrapper(text, width, initial_indent, subsequent_indent) ==
    [made |-> TRUE, text |-> text, width |-> width, initial_indent |-> initial_indent,
     subsequent_indent |-> subsequent_indent, raised |-> WrapRaises(width),
     lines |-> IF WrapRaises(width) THEN <<>>
               ELSE Wrap(text, width, initial_indent, subsequent_indent)]

(***************************************************************************)
(* The lib2to3 tree as the fixer uses it                                   *)
(***************************************************************************)
NoPath == <<0>>

IsLeaf(n) == n.k = "leaf"

\* Leaf(type, value): a leaf built by the fixer; prefix "" and column 0.
Leaf(id, type, value) ==
    [k |-> "leaf", id |-> id, type |-> type, value |-> value, prefix |-> <<>>,
     column |-> 0, was_changed |-> FALSE]

LParen(id) == Leaf(id, "LPAR", <<"(">>)

RParen(id) == Leaf(id, "RPAR", <<")">>)

\* Leaf.__eq__ compares (type, value) only; a Node never equals a Leaf.
IsLParen(n) == IsLeaf(n) /\ n.type = "LPAR" /\ n.value = <<"(">>

IsDot(n) == IsLeaf(n) /\ n.type = "DOT" /\ n.value = <<".">>

Front(p) == Slice(p, 1, Len(p) - 1)

Last(p) == p[Len(p)]

RECURSIVE Get(_, _)
Get(t, p) == IF p = <<>> THEN t ELSE Get(t.children[Head(p)], Tail(p))

RECURSIVE Put(_, _, _)
Put(t, p, v) ==
    IF p = <<>> THEN v
    ELSE [t EXCEPT !.children[Head(p)] = Put(@, Tail(p), v)]

\* Base.changed(): the flag is set on the node and on every ancestor.
RECURSIVE Touch(_, _)
Touch(t, p) ==
    IF p = <<>> THEN [t EXCEPT !.was_changed = TRUE]
    ELSE [t EXCEPT !.was_changed = TRUE, !.children[Head(p)] = Touch(@, Tail(p))]

\* Node.prefix is the prefix of the first leaf below it.
RECURSIVE FirstLeaf(_)
FirstLeaf(n) ==
    IF IsLeaf(n) THEN <<>>
    ELSE IF n.children = <<>> THEN NoPath
    ELSE LET r == FirstLeaf(n.children[1])
         IN IF r = NoPath THEN NoPath ELSE <<1>> \o r

GetPrefix(n) ==
    LET q == FirstLeaf(n) IN IF q = NoPath THEN <<>> ELSE Get(n, q).prefix

\* The prefix setter: Leaf.prefix = s calls self.changed().
SetPrefix(t, p, s) ==
    LET q == FirstLeaf(Get(t, p))
    IN IF q = NoPath THEN t
       ELSE Touch(Put(t, p \o q, [Get(t, p \o q) EXCEPT !.prefix = s]), p \o q)

RECURSIVE LeavesOf(_, _)
RECURSIVE LeavesFrom(_, _, _)
LeavesOf(n, p) == IF IsLeaf(n) THEN <<p>> ELSE LeavesFrom(n, p, 1)
LeavesFrom(n, p, i) ==
    IF i > Len(n.children) THEN <<>>
    ELSE LeavesOf(n.children[i], Append(p, i)) \o LeavesFrom(n, p, i + 1)

\* Base.pre_order(): the node, then its children's subtrees, left to right.
RECURSIVE PreOrder(_, _)
RECURSIVE PreOrderFrom(_, _, _)
PreOrder(n, p) == IF IsLeaf(n) THEN <<p>> ELSE <<p>> \o PreOrderFrom(n, p, 1)
PreOrderFrom(n, p, i) ==
    IF i > Len(n.children) THEN <<>>
    ELSE PreOrder(n.children[i], Append(p, i)) \o PreOrderFrom(n, p, i + 1)

\* Base.prev_sibling
PrevSibling(p) ==
    IF p = <<>> \/ Last(p) = 1 THEN NoPath ELSE Append(Front(p), Last(p) - 1)

\* Base.replace(new): the parent is marked changed, then gets the new list.
ReplaceAt(t, p, new) ==
    LET pp == Front(p)
        i == Last(p)
        ch == Get(t, pp).children
        t1 == Touch(t, pp)
    IN Put(t1, pp, [Get(t1, pp) EXCEPT
                      !.children = Slice(ch, 1, i - 1) \o new \o Slice(ch, i + 1, Len(ch))])

\* Node.insert_child(i, child) with Python's 0-based i, then self.changed().
InsertChild(t, p, i, child) ==
    LET ch == Get(t, p).children
        t1 == Put(t, p, [Get(t, p) EXCEPT
                           !.children = Slice(ch, 1, i) \o <<child>> \o Slice(ch, i + 1, Len(ch))])
    IN Touch(t1, p)

AppendChild(t, p, child) ==
    Touch(Put(t, p, [Get(t, p) EXCEPT !.children = Append(@, child)]), p)

\* fixer_util.find_indentation: the INDENT of the nearest enclosing suite.
RECURSIVE FindIndentation(_, _)
FindIndentation(t, p) ==
    LET n == Get(t, p)
    IN IF ~IsLeaf(n) /\ n.type = "suite" /\ Len(n.children) > 2
          /\ n.children[2].type = "INDENT"
       THEN n.children[2].value
       ELSE IF p = <<>> THEN <<>> ELSE FindIndentation(t, Front(p))

OPENING_TOKENS == {"LPAR", "LSQB", "LBRACE"}

CLOSING_TOKENS == {"RPAR", "RSQB", "RBRACE"}

PrefixLines(n) == Split(GetPrefix(n), "\n")

HasLongLine(n) == \E i \in 1..Len(PrefixLines(n)) : Len(PrefixLines(n)[i]) > MAX_CHARS

(***************************************************************************)
(* FixMaximumLineLength.match                                              *)
(***************************************************************************)
match(node) ==
    IF node.type \in {"NEWLINE", "COLON"}
    THEN node.column > MAX_CHARS
    ELSE HasLongLine(node)

\* What an operation hands back: the tree, whether it raised, the next fresh id.
Res(t, e, n) == [tree |-> t, err |-> e, nid |-> n]

\* The same, for an operation that may have called a TextWrapper.
Wrapped(r, w) == [tree |-> r.tree, err |-> r.err, nid |-> r.nid, wrapper |-> w]

(***************************************************************************)
(* Helpers of fixes/utils.py (not part of the source at hand)              *)
(***************************************************************************)
\* tuplize_comments(prefix) -> <<before_comments, comments, after_comments>>:
\* the text before the line of the first '#', the comment lines up to and
\* including the line break that ends the last of them, and what follows.
tuplize_comments(prefix) ==
    IF Count(prefix, "#") = 0 THEN <<prefix, <<>>, <<>>>>
    ELSE
      LET h == IndexOf(prefix, "#") + 1
          nlb == {j \in 1..h : prefix[j] = "\n"}
          start == IF nlb = {} THEN 0 ELSE CHOOSE j \in nlb : \A k \in nlb : k <= j
          lasth == CHOOSE j \in 1..Len(prefix) :
                       prefix[j] = "#" /\ \A k \in (j + 1)..Len(prefix) : prefix[k] # "#"
          nla == {j \in lasth..Len(prefix) : prefix[j] = "\n"}
          end == IF nla = {} THEN Len(prefix) ELSE CHOOSE j \in nla : \A k \in nla : j <= k
      IN <<Slice(prefix, 1, start), Slice(prefix, start + 1, end),
           Slice(prefix, end + 1, Len(prefix))>>

\* get_quotes(text) -> <<quote_start, quote_end>>: the opening delimiter, three
\* quote characters or the first character, and the same as closing delimiter.
get_quotes(text) ==
    IF Len(text) >= 3 /\ Slice(text, 1, 3) \in {<<"'", "'", "'">>, <<"\"", "\"", "\"">>}
    THEN <<Slice(text, 1, 3), Slice(text, 1, 3)>>
    ELSE <<Slice(text, 1, 1), Slice(text, 1, 1)>>

(***************************************************************************)
(* FixMaximumLineLength.fix_prefix                                         *)
(***************************************************************************)
CommentLines(comments) ==
    LET ls == Split(comments, "\n")
    IN [i \in 1..Len(ls) |-> LStrip(ReplaceFirstHash(ls[i]))]

\* Line 63, node.prev_sibling.children[0].column: -1 when the expression
\* raises (no sibling, a sibling without children, a first child that is a Node).
InlineIndentLevel(t, p) ==
    LET ps == PrevSibling(p)
    IN IF ps = NoPath THEN -1
       ELSE IF IsLeaf(Get(t, ps)) \/ Get(t, ps).children = <<>> THEN -1
       ELSE IF ~IsLeaf(Get(t, ps).children[1]) THEN -1
       ELSE Get(t, ps).children[1].column

WrapComments(all_comments, indent) == TextWrapper(all_comments, MAX_CHARS, indent, indent)

fix_prefix(t, p, nid) ==
    LET prefix == GetPrefix(Get(t, p))
        tc == tuplize_comments(prefix)
        comments == tc[2]
        all_comments == Join(CommentLines(comments), <<" ">>)
        is_inline_comment == Count(prefix, "\n") = 0
        level == IF is_inline_comment THEN InlineIndentLevel(t, p)
                 ELSE IndexOf(comments, "#")
        indent == Rep(" ", level) \o <<"#", " ">>
        wrapper == WrapComments(all_comments, indent)
        split_lines == wrapper.lines
        after_comments == IF is_inline_comment THEN tc[3] ELSE <<"\n">> \o tc[3]
        body == IF is_inline_comment THEN <<"\n">> \o Join(split_lines, <<"\n">>)
                ELSE Join(split_lines, <<"\n">>)
        new_prefix == tc[1] \o body \o after_comments
    IN IF IndexOf(comments, "#") < 0 THEN Wrapped(Res(t, TRUE, nid), NoWrapper)
       ELSE IF level < 0 THEN Wrapped(Res(t, TRUE, nid), NoWrapper)
       ELSE IF is_inline_comment /\ split_lines = <<>>
       THEN Wrapped(Res(t, TRUE, nid), wrapper)
       ELSE IF prefix # new_prefix
       THEN Wrapped(Res(Touch(SetPrefix(t, p, new_prefix), p), FALSE, nid), wrapper)
       ELSE Wrapped(Res(t, FALSE, nid), wrapper)

(***************************************************************************)
(* FixMaximumLineLength.fix_docstring                                      *)
(***************************************************************************)
\* Lines 99-101: close every line but the last with quote_end.
CloseLines(lines, quote_end) ==
    [i \in 1..Len(lines) |-> IF i # Len(lines) THEN lines[i] \o quote_end ELSE lines[i]]

\* Lines 103-105: a STRING leaf per line, a NEWLINE leaf between two of them.
RECURSIVE DocNodes(_, _)
DocNodes(lines, nid) ==
    IF lines = <<>> THEN <<>>
    ELSE <<Leaf(nid, "NEWLINE", <<"\n">>), Leaf(nid + 1, "STRING", Head(lines))>>
         \o DocNodes(Tail(lines), nid + 2)

WrapDocstring(value, max_length, comment_indent) ==
    TextWrapper(value, max_length, <<>>, comment_indent)

\* Lines 103-105: the leaves that take the place of the string.
NewNodes(split_lines, nid) ==
    <<Leaf(nid, "STRING", split_lines[1])>> \o DocNodes(Tail(split_lines), nid + 1)

\* Lines 99-108, given the wrapper of lines 96-97: split_lines.pop(0) raises
\* IndexError when wrap gave no line.
ReplaceDocstring(t1, p, nid, wrapper, triple_quoted, quote_end) ==
    IF wrapper.raised \/ wrapper.lines = <<>> THEN Wrapped(Res(t1, TRUE, nid), wrapper)
    ELSE Wrapped(Res(ReplaceAt(t1, p,
                               NewNodes(IF triple_quoted THEN wrapper.lines
                                        ELSE CloseLines(wrapper.lines, quote_end), nid)),
                     FALSE, nid + 2 * Len(wrapper.lines) - 1),
                 wrapper)

fix_docstring(t, p, nid) ==
    LET node_to_split == Get(t, p)
        q == get_quotes(node_to_split.value)
        triple_quoted == Len(q[1]) >= 3
        comment_indent == IF triple_quoted THEN Rep(" ", 4 + node_to_split.column)
                          ELSE Rep(" ", 4 + node_to_split.column) \o q[1]
        max_length == IF triple_quoted THEN MAX_CHARS - node_to_split.column
                      ELSE MAX_CHARS - node_to_split.column - Len(q[2])
        value == IF triple_quoted THEN node_to_split.value
                 ELSE <<"(">> \o node_to_split.value \o <<")">>
    IN ReplaceDocstring(Put(t, p, [node_to_split EXCEPT !.value = value]), p, nid,
                        WrapDocstring(value, max_length, comment_indent),
                        triple_quoted, q[2])

(***************************************************************************)
(* The Parenthesizer                                                       *)
(***************************************************************************)
\* The body shared by parenthesize_test, _print_or_return_stmt, _import_stmt
\* and _expr_stmt: `owner` is the node that gets the parens, i the 0-based
\* index of the child in front of which the LParen goes, lead its prefix.
\* The prefix setter of a Leaf marks it changed, so a left_paren that was given
\* a prefix carries was_changed = TRUE into the tree.
SpacedLParen(id) == [LParen(id) EXCEPT !.prefix = <<" ">>, !.was_changed = TRUE]

WrapChildren(t, owner, i, left_paren, nid) ==
    LET c == Append(owner, i + 1)
        t1 == SetPrefix(t, c, Strip(GetPrefix(Get(t, c))))
        t2 == Touch(t1, c)
        t3 == InsertChild(t2, owner, i, left_paren)
        t4 == AppendChild(t3, owner, RParen(nid + 1))
    IN Res(Touch(t4, owner), FALSE, nid + 2)

parenthesize_test(t, p, nid) ==
    IF ~IsLParen(Get(t, p).children[1])
    THEN WrapChildren(t, p, 0, LParen(nid), nid)
    ELSE Res(t, FALSE, nid)

parenthesize_print_or_return_stmt(t, p, nid) ==
    IF Len(Get(t, p).children) < 2 THEN Res(t, TRUE, nid)
    ELSE IF ~IsLParen(Get(t, p).children[2])
    THEN WrapChildren(t, p, 1, LParen(nid), nid)
    ELSE Res(t, FALSE, nid)

\* children[-1] of a Leaf, or of a childless node, raises IndexError.
parenthesize_import_stmt(t, p, nid) ==
    LET n == Get(t, p)
        names == Append(p, Len(n.children))
    IN IF n.children = <<>> THEN Res(t, TRUE, nid)
       ELSE IF IsLeaf(Get(t, names)) \/ Get(t, names).children = <<>> THEN Res(t, TRUE, nid)
       ELSE IF ~IsLParen(Get(t, names).children[1])
       THEN WrapChildren(t, names, 0, SpacedLParen(nid), nid)
       ELSE Res(t, FALSE, nid)

parenthesize_expr_stmt(t, p, nid) ==
    LET n == Get(t, p)
        value_node == Append(p, 3)
    IN IF Len(n.children) < 3 THEN Res(t, TRUE, nid)
       ELSE IF IsLeaf(Get(t, value_node)) \/ Get(t, value_node).children = <<>>
       THEN Res(t, TRUE, nid)
       ELSE IF ~IsLParen(Get(t, value_node).children[1])
       THEN WrapChildren(t, value_node, 0, SpacedLParen(nid), nid)
       ELSE Res(t, FALSE, nid)

\* Lines 219-225: the "(" goes into the first child's prefix, not into the tree.
parenthesize_call_stmt(t, p, breaking_on_func_call, nid) ==
    LET n == Get(t, p)
        c == Append(p, 1)
    IN IF n.type = "power" /\ ~breaking_on_func_call THEN Res(t, FALSE, nid)
       ELSE IF ~IsLParen(n.children[1])
       THEN LET t1 == SetPrefix(t, c, GetPrefix(Get(t, c)) \o <<"(">>)
                t2 == Touch(t1, c)
                t3 == AppendChild(t2, p, RParen(nid))
            IN Res(Touch(t3, p), FALSE, nid + 1)
       ELSE Res(t, FALSE, nid)

TestKinds == {"or_test", "and_test", "not_test", "test", "arith_expr", "comparison"}

ParenKinds ==
    {"print_stmt", "return_stmt", "expr_stmt", "power", "atom", "import_from",
     "parameters"} \cup TestKinds

parenthesize_parent(t, p, breaking_on_func_call, nid) ==
    LET ty == Get(t, p).type
    IN IF IsLeaf(Get(t, p)) THEN Res(t, FALSE, nid)
       ELSE IF ty \in {"print_stmt", "return_stmt"}
       THEN parenthesize_print_or_return_stmt(t, p, nid)
       ELSE IF ty = "expr_stmt" THEN parenthesize_expr_stmt(t, p, nid)
       ELSE IF ty \in {"power", "atom"}
       THEN parenthesize_call_stmt(t, p, breaking_on_func_call, nid)
       ELSE IF ty = "import_from" THEN parenthesize_import_stmt(t, p, nid)
       ELSE IF ty \in TestKinds THEN parenthesize_test(t, p, nid)
       ELSE Res(t, FALSE, nid)

(***************************************************************************)
(* FixMaximumLineLength.fix_leaves, lines 110-141                          *)
(***************************************************************************)
\* Lines 115-123: the scan of node_to_split.leaves().
RECURSIVE ScanLeaves(_, _, _, _, _)
ScanLeaves(t, ls, i, first_leaf_gt_limit, open_count) ==
    IF i > Len(ls) THEN [leaf |-> first_leaf_gt_limit, open_count |-> open_count]
    ELSE LET leaf == Get(t, ls[i])
         IN IF leaf.column < MAX_CHARS
            THEN ScanLeaves(t, ls, i + 1, ls[i],
                            open_count
                              + (IF leaf.type \in OPENING_TOKENS THEN 1 ELSE 0)
                              - (IF leaf.type \in CLOSING_TOKENS THEN 1 ELSE 0))
            ELSE [leaf |-> first_leaf_gt_limit, open_count |-> open_count]

Scan(t, p) == ScanLeaves(t, LeavesOf(Get(t, p), p), 1, NoPath, 0)

\* Line 134: first_leaf_gt_limit.prev_sibling == Leaf(token.DOT, u'.')
BreakingOnFuncCall(t, leaf) ==
    PrevSibling(leaf) # NoPath /\ IsDot(Get(t, PrevSibling(leaf)))

\* Lines 129-141: strip the leaf's prefix and put NEWLINE, INDENT in front of it.
SplitAt(t, p, leaf, nid) ==
    LET t1 == SetPrefix(t, leaf, Strip(Get(t, leaf).prefix))
        new_indent == Rep(" ", 4) \o FindIndentation(t1, p)
        moved == [Get(t1, leaf) EXCEPT !.was_changed = TRUE]
    IN ReplaceAt(t1, leaf,
                 <<Leaf(nid, "NEWLINE", <<"\n">>), Leaf(nid + 1, "INDENT", new_indent), moved>>)

\* fix_leaves without the was_changed guard of lines 125-127.
fix_leaves_unguarded(t, p, nid) ==
    LET sc == Scan(t, p)
        base == [tree |-> t, err |-> FALSE, nid |-> nid, split |-> FALSE, node |-> p,
                 open_count |-> sc.open_count, breaking_on_func_call |-> FALSE]
    IN IF sc.leaf = NoPath THEN [base EXCEPT !.err = TRUE]
       ELSE [base EXCEPT !.tree = SplitAt(t, p, sc.leaf, nid),
                         !.nid = nid + 2,
                         !.split = TRUE,
                         !.node = IF sc.leaf = p THEN Append(Front(p), Last(p) + 2) ELSE p,
                         !.breaking_on_func_call = BreakingOnFuncCall(t, sc.leaf)]

\* split tells whether lines 129-141 ran; node is node_to_split's path after them.
fix_leaves(t, p, nid) ==
    LET sc == Scan(t, p)
        base == [tree |-> t, err |-> FALSE, nid |-> nid, split |-> FALSE, node |-> p,
                 open_count |-> sc.open_count, breaking_on_func_call |-> FALSE]
    IN IF sc.leaf = NoPath THEN [base EXCEPT !.err = TRUE]
       ELSE IF Get(t, sc.leaf).was_changed THEN base
       ELSE [base EXCEPT !.tree = SplitAt(t, p, sc.leaf, nid),
                         !.nid = nid + 2,
                         !.split = TRUE,
                         !.node = IF sc.leaf = p THEN Append(Front(p), Last(p) + 2) ELSE p,
                         !.breaking_on_func_call = BreakingOnFuncCall(t, sc.leaf)]

(***************************************************************************)
(* Input trees: what the lib2to3 parser hands over                         *)
(***************************************************************************)
\* Bounds of the model.
NOperands == 3

MaxPasses == 4

\* Lengths of the names and string bodies an input statement is built from.
Lens == {30, 77}

W(n) == Rep("x", n)

Tok(type, value, prefix) == [Leaf(0, type, value) EXCEPT !.prefix = prefix]

Node(type, children) ==
    [k |-> "node", type |-> type, children |-> children, was_changed |-> FALSE]

Sp == <<" ">>

Name(n, prefix) == Tok("NAME", W(n), prefix)

Kw(word, prefix) == Tok("NAME", word, prefix)

Str(n) == <<"'">> \o W(n) \o <<"'">>

\* a <op> b <op> c ...
RECURSIVE OpChain(_, _, _, _)
OpChain(v, i, type, op) ==
    IF i > Len(v) THEN <<>>
    ELSE (IF i = 1 THEN <<Name(v[1], <<>>)>>
          ELSE <<Tok(type, <<op>>, Sp), Name(v[i], Sp)>>)
         \o OpChain(v, i + 1, type, op)

\* a, b, c ...
RECURSIVE CommaChain(_, _)
CommaChain(v, i) ==
    IF i > Len(v) THEN <<>>
    ELSE (IF i = 1 THEN <<Name(v[1], <<>>)>>
          ELSE <<Tok("COMMA", <<",">>, <<>>), Name(v[i], Sp)>>)
         \o CommaChain(v, i + 1)

\* 'a' 'b' 'c' ...
RECURSIVE StrChain(_, _)
StrChain(v, i) ==
    IF i > Len(v) THEN <<>>
    ELSE <<Tok("STRING", Str(v[i]), IF i = 1 THEN <<>> ELSE Sp)>> \o StrChain(v, i + 1)

\* .b .c ...
RECURSIVE DotChain(_, _)
DotChain(v, i) ==
    IF i > Len(v) THEN <<>>
    ELSE <<Node("trailer", <<Tok("DOT", <<".">>, <<>>), Name(v[i], <<>>)>>)>>
         \o DotChain(v, i + 1)

\* The subtree lib2to3 builds for a statement of each kind over operands v.
Statement(kind, v) ==
    CASE kind = "return_stmt" ->
           Node("return_stmt",
                <<Kw(<<"r", "e", "t", "u", "r", "n">>, <<>>),
                  [Node("arith_expr", OpChain(v, 1, "PLUS", "+")) EXCEPT
                      !.children[1].prefix = Sp]>>)
      [] kind = "print_stmt" ->
           Node("print_stmt",
                <<Kw(<<"p", "r", "i", "n", "t">>, <<>>)>>
                \o [CommaChain(v, 1) EXCEPT ![1].prefix = Sp])
      [] kind = "expr_stmt" ->
           Node("expr_stmt",
                <<Name(v[1], <<>>), Tok("EQUAL", <<"=">>, Sp),
                  [Node("arith_expr", OpChain(Tail(v), 1, "PLUS", "+")) EXCEPT
                      !.children[1].prefix = Sp]>>)
      [] kind = "power" ->
           Node("power",
                <<Name(v[1], <<>>)>> \o DotChain(v, 2)
                \o <<Node("trailer", <<Tok("LPAR", <<"(">>, <<>>),
                                       Tok("RPAR", <<")">>, <<>>)>>)>>)
      [] kind = "atom" -> Node("atom", StrChain(v, 1))
      [] kind = "import_from" ->
           Node("import_from",
                <<Kw(<<"f", "r", "o", "m">>, <<>>), Name(v[1], Sp), Kw(<<"i", "m", "p", "o", "r", "t">>, Sp),
                  [Node("import_as_names", CommaChain(Tail(v), 1)) EXCEPT
                      !.children[1].prefix = Sp]>>)
      [] kind = "arith_expr" -> Node("arith_expr", OpChain(v, 1, "PLUS", "+"))
      [] kind = "term" -> Node("term", OpChain(v, 1, "STAR", "*"))
      [] kind = "parameters" ->
           Node("parameters",
                <<Tok("LPAR", <<"(">>, <<>>), Node("typedargslist", CommaChain(v, 1)),
                  Tok("RPAR", <<")">>, <<>>)>>)
      [] kind = "name" -> Name(v[1], <<>>)

\* The prefix of the first leaf of n becomes s (as the parser sets it).
WithLead(n, s) ==
    LET q == FirstLeaf(n) IN Put(n, q, [Get(n, q) EXCEPT !.prefix = s])

\* stmt NEWLINE
SimpleStmt(stmt, lead, tail) ==
    Node("simple_stmt", <<WithLead(stmt, lead), Tok("NEWLINE", <<"\n">>, tail)>>)

Body(depth) ==
    Node("suite",
         <<Tok("NEWLINE", <<"\n">>, <<>>), Tok("INDENT", Rep(" ", depth + 4), <<>>),
           Node("simple_stmt", <<Kw(<<"p", "a", "s", "s">>, <<>>), Tok("NEWLINE", <<"\n">>, <<>>)>>)>>)

\* if cond: / def f(params):  each followed by an indented body
Compound(cond, tail, depth) ==
    IF cond.type = "parameters"
    THEN Node("funcdef",
              <<Kw(<<"d", "e", "f">>, <<>>), Name(1, Sp), cond, Tok("COLON", <<":">>, tail),
                Body(depth)>>)
    ELSE Node("if_stmt",
              <<Kw(<<"i", "f">>, <<>>), WithLead(cond, Sp), Tok("COLON", <<":">>, tail),
                Body(depth)>>)

\* The statement at the top of the file (depth 0), or as the body of an
\* "if x:" block indented by depth.
Enclose(stmt, depth) ==
    IF depth = 0 THEN Node("file_input", <<stmt>>)
    ELSE Node("file_input",
              <<Node("if_stmt",
                     <<Kw(<<"i", "f">>, <<>>), Name(1, Sp), Tok("COLON", <<":">>, <<>>),
                       Node("suite",
                            <<Tok("NEWLINE", <<"\n">>, <<>>),
                              Tok("INDENT", Rep(" ", depth), <<>>), stmt>>)>>)>>)

\* The parser's (lineno, column) bookkeeping: the column at which each leaf's
\* value starts, and ids 1, 2, ... in document order.
ColumnAfter(cur, text) ==
    IF Count(text, "\n") = 0 THEN cur + Len(text)
    ELSE Len(text) - (CHOOSE j \in 1..Len(text) :
                          text[j] = "\n" /\ \A k \in (j + 1)..Len(text) : text[k] # "\n")

RECURSIVE AssignColumns(_, _, _, _)
AssignColumns(t, ls, i, cur) ==
    IF i > Len(ls) THEN t
    ELSE LET leaf == Get(t, ls[i])
             col == ColumnAfter(cur, leaf.prefix)
         IN AssignColumns(Put(t, ls[i], [leaf EXCEPT !.column = col, !.id = i]),
                          ls, i + 1,
                          IF leaf.type = "INDENT" THEN Len(leaf.value)
                          ELSE ColumnAfter(col, leaf.value))

Parse(t) == AssignColumns(t, LeavesOf(t, <<>>), 1, 0)

\* str(tree)
RECURSIVE RenderLeaves(_, _, _)
RenderLeaves(t, ls, i) ==
    IF i > Len(ls) THEN <<>>
    ELSE Get(t, ls[i]).prefix \o Get(t, ls[i]).value \o RenderLeaves(t, ls, i + 1)

Render(t) == RenderLeaves(t, LeavesOf(t, <<>>), 1)

Operands == [1..NOperands -> Lens]

SimpleKinds ==
    {"return_stmt", "print_stmt", "expr_stmt", "power", "atom", "import_from", "term",
     "name"}

CondKinds == {"arith_expr", "parameters", "power", "name"}

\* Statements too long for one line, at the top of a file.
LongStatements ==
    {Enclose(SimpleStmt(Statement(k, v), <<>>, <<>>), 0) : k \in SimpleKinds, v \in Operands}
    \cup {Enclose(Compound(Statement(k, v), <<>>, 0), 0) : k \in CondKinds, v \in Operands}

\* w1 w2 w3 ...
RECURSIVE Words(_, _)
Words(v, i) ==
    IF i > Len(v) THEN <<>>
    ELSE (IF i = 1 THEN <<>> ELSE Sp) \o W(v[i]) \o Words(v, i + 1)

Quotes == {<<"'">>, <<"'", "'", "'">>}

\* A statement that is one string literal: q w1 w2 w3 q
Docstring(q, v) == Tok("STRING", q \o Words(v, 1) \o q, <<>>)

\* The column of a block so deep that no width is left on its lines.
DeepColumn == MAX_CHARS + 1

Docstrings ==
    {Enclose(SimpleStmt(Docstring(q, v), <<>>, <<>>), d) :
        q \in Quotes, v \in Operands, d \in {0, 4}}
    \cup {Enclose(SimpleStmt(Docstring(q, <<3>>), <<>>, <<>>), DeepColumn) : q \in Quotes}

\* # w1 w2 w3 ...
Comment(v) == <<"#", " ">> \o Words(v, 1)

\* One word longer than a line.
LongWord == <<MAX_CHARS + 19>>

Pass == Kw(<<"p", "a", "s", "s">>, <<>>)

\* x = x, xxx.x = x, x
Commented ==
    {Node("expr_stmt", <<Name(1, <<>>), Tok("EQUAL", <<"=">>, Sp), Name(1, Sp)>>),
     Node("expr_stmt",
          <<Node("power", <<Name(3, <<>>)>> \o DotChain(<<1>>, 1)),
            Tok("EQUAL", <<"=">>, Sp), Name(1, Sp)>>),
     Name(1, <<>>)}

\* Comments on lines of their own above a statement, and after a statement on
\* its line; a statement followed by blanks; a statement in a deep block; a
\* colon on a continuation line.
Comments ==
    {Enclose(SimpleStmt(Pass, Comment(v) \o <<"\n">>, <<>>), 0) :
        v \in Operands \cup {LongWord}}
    \cup {Enclose(SimpleStmt(stmt, <<>>, <<" ", " ">> \o Comment(v)), 0) :
             stmt \in Commented, v \in {<<30, 77>>, <<77>>}}

Blanks ==
    {Enclose(SimpleStmt(stmt, <<>>, Rep(" ", MAX_CHARS + 1)), 0) : stmt \in Commented}
    \cup {Enclose(SimpleStmt(stmt, <<>>, <<>>), DeepColumn) : stmt \in Commented}
    \cup {Enclose(Compound(Name(3, <<>>), Rep(" ", MAX_CHARS + 1) \o <<"\\", "\n">> \o Rep(" ", 3), 0), 0)}

InitTrees == {Parse(t) : t \in LongStatements \cup Docstrings \cup Comments \cup Blanks}

(***************************************************************************)
(* The driver: attempt_fix (match, then transform) on every node in        *)
(* document order, pass after pass, until a pass changes nothing.          *)
(***************************************************************************)
VARIABLES tree, pc, todo, pass, dirty, nid, frame, last, wrapper

vars == <<tree, pc, todo, pass, dirty, nid, frame, last, wrapper>>

Nodes(t) == PreOrder(t, <<>>)

\* The node the driver is at: todo nodes of the pass are still to be visited.
Cur == Nodes(tree)[Len(Nodes(tree)) - todo + 1]

NoFrame == [node |-> NoPath, breaking_on_func_call |-> FALSE]

Init ==
    /\ tree \in InitTrees
    /\ pc = "match"
    /\ todo = Len(Nodes(tree))
    /\ pass = 1
    /\ dirty = FALSE
    /\ nid = Len(LeavesOf(tree, <<>>)) + 1
    /\ frame = NoFrame
    /\ last = "start"
    /\ wrapper = NoWrapper

\* The driver calls match(node).
Match ==
    /\ pc = "match"
    /\ todo > 0
    /\ IF match(Get(tree, Cur))
       THEN pc' = "prefix" /\ todo' = todo /\ last' = "match"
       ELSE pc' = "match" /\ todo' = todo - 1 /\ last' = "no_match"
    /\ UNCHANGED <<tree, pass, dirty, nid, frame, wrapper>>

\* transform, lines 37-40.  node.column raises AttributeError on a Node.
NeedsPrefixFix(node) ==
    \/ HasLongLine(node)
    \/ Count(GetPrefix(node), "#") > 0 /\ node.column + Len(GetPrefix(node)) > MAX_CHARS

TransformPrefix ==
    /\ pc = "prefix"
    /\ LET node == Get(tree, Cur)
           r == fix_prefix(tree, Cur, nid)
       IN IF ~HasLongLine(node) /\ Count(GetPrefix(node), "#") > 0 /\ ~IsLeaf(node)
          THEN /\ pc' = "raised" /\ tree' = tree /\ last' = "raise_transform"
               /\ wrapper' = wrapper
          ELSE IF NeedsPrefixFix(node)
          THEN /\ tree' = r.tree
               /\ pc' = IF r.err THEN "raised" ELSE "split"
               /\ last' = IF r.err THEN "raise_fix_prefix" ELSE "fix_prefix"
               /\ wrapper' = IF r.wrapper.made THEN r.wrapper ELSE wrapper
          ELSE /\ pc' = "split" /\ tree' = tree /\ last' = "prefix_ok"
               /\ wrapper' = wrapper
    /\ dirty' = (dirty \/ tree' # tree)
    /\ UNCHANGED <<todo, pass, nid, frame>>

\* transform, lines 41-48: which node to split, and by which operation.
TransformSplit ==
    /\ pc = "split"
    /\ LET node == Get(tree, Cur)
           node_to_split == PrevSibling(Cur)
       IN IF IsLeaf(node) /\ node.type \in {"NEWLINE", "COLON"}
             /\ node.column - Len(node.prefix) > MAX_CHARS
          THEN IF node_to_split = NoPath
               THEN pc' = "match" /\ todo' = todo - 1 /\ frame' = NoFrame
                    /\ last' = "no_sibling"
               ELSE /\ pc' = IF Get(tree, node_to_split).type = "STRING"
                             THEN "docstring" ELSE "leaves"
                    /\ todo' = todo
                    /\ frame' = [NoFrame EXCEPT !.node = node_to_split]
                    /\ last' = "split"
          ELSE pc' = "match" /\ todo' = todo - 1 /\ frame' = NoFrame /\ last' = "no_split"
    /\ UNCHANGED <<tree, pass, dirty, nid, wrapper>>

FixDocstring ==
    /\ pc = "docstring"
    /\ LET r == fix_docstring(tree, frame.node, nid)
       IN /\ tree' = r.tree
          /\ nid' = r.nid
          /\ pc' = IF r.err THEN "raised" ELSE "match"
          /\ todo' = IF r.err THEN todo ELSE todo - 1
          /\ last' = IF r.err THEN "raise_fix_docstring" ELSE "fix_docstring"
          /\ wrapper' = r.wrapper
    /\ dirty' = (dirty \/ tree' # tree)
    /\ frame' = NoFrame
    /\ UNCHANGED pass

\* fix_leaves, lines 110-143.
FixLeaves ==
    /\ pc = "leaves"
    /\ LET r == fix_leaves(tree, frame.node, nid)
       IN /\ tree' = r.tree
          /\ nid' = r.nid
          /\ IF r.err
             THEN pc' = "raised" /\ todo' = todo /\ frame' = NoFrame
                  /\ last' = "raise_fix_leaves"
             ELSE IF r.split /\ r.open_count <= 0
             THEN /\ pc' = "paren" /\ todo' = todo
                  /\ frame' = [node |-> r.node,
                               breaking_on_func_call |-> r.breaking_on_func_call]
                  /\ last' = "split_outside"
             ELSE /\ pc' = "match" /\ todo' = todo - 1 /\ frame' = NoFrame
                  /\ last' = IF r.split THEN "split_inside" ELSE "already_changed"
    /\ dirty' = (dirty \/ tree' # tree)
    /\ UNCHANGED <<pass, wrapper>>

\* fix_leaves, line 145: parenthesize_parent.
Parenthesize ==
    /\ pc = "paren"
    /\ LET r == parenthesize_parent(tree, frame.node, frame.breaking_on_func_call, nid)
       IN /\ tree' = r.tree
          /\ nid' = r.nid
          /\ pc' = IF r.err THEN "raised" ELSE "match"
          /\ todo' = IF r.err THEN todo ELSE todo - 1
          /\ last' = IF r.err THEN "raise_parenthesize" ELSE "parenthesize"
    /\ dirty' = (dirty \/ tree' # tree)
    /\ frame' = NoFrame
    /\ UNCHANGED <<pass, wrapper>>

\* The end of a pass: stop when it changed nothing, otherwise go again.
\* pc = "more" says another pass is due beyond MaxPasses.
EndPass ==
    /\ pc = "match"
    /\ todo = 0
    /\ IF ~dirty
       THEN pc' = "done" /\ UNCHANGED <<todo, pass, dirty>>
       ELSE IF pass < MaxPasses
       THEN /\ pass' = pass + 1 /\ todo' = Len(Nodes(tree)) /\ dirty' = FALSE
            /\ pc' = "match"
       ELSE pc' = "more" /\ UNCHANGED <<todo, pass, dirty>>
    /\ last' = "end_pass"
    /\ UNCHANGED <<tree, nid, frame, wrapper>>

Next ==
    \/ Match
    \/ TransformPrefix
    \/ TransformSplit
    \/ FixDocstring
    \/ FixLeaves
    \/ Parenthesize
    \/ EndPass

Spec == Init /\ [][Next]_vars

(***************************************************************************)
(* The Text Wrapper on its own: a wrapper is made over a text drawn from    *)
(* small words and widths, and wrap() is called on it.                     *)
(***************************************************************************)
MaxWidth == 7

WordLens == {1, 4, 9}

Letters == <<"a", "b", "c", "d", "e">>

\* Words of the given lengths, sep[i] blanks in front of word i.
RECURSIVE Spaced(_, _, _)
Spaced(v, sep, i) ==
    IF i > Len(v) THEN <<>>
    ELSE Rep(" ", sep[i]) \o Rep(Letters[i], v[i]) \o Spaced(v, sep, i + 1)

WrapTexts ==
    {Spaced(v, [j \in 1..Len(v) |-> IF j = 1 THEN lead ELSE gap], 1) :
        v \in UNION {[1..n -> WordLens] : n \in 1..NOperands},
        lead \in {0}, gap \in {1, 2}}

\* The indents the fixer uses: none, "# ", and blanks with a quote.
WrapIndents ==
    {<<<<>>, <<>>>>, <<<<"#", " ">>, <<"#", " ">>>>, <<<<>>, <<" ", " ", "'">>>>}

InitWrap ==
    /\ wrapper \in {[NoWrapper EXCEPT !.text = t, !.width = w, !.initial_indent = ind[1],
                                     !.subsequent_indent = ind[2]] :
                       t \in WrapTexts, w \in 0..MaxWidth, ind \in WrapIndents}
    /\ tree = Tok("STRING", wrapper.text, <<>>)
    /\ pc = "wrap"
    /\ todo = 0
    /\ pass = 1
    /\ dirty = FALSE
    /\ nid = 1
    /\ frame = NoFrame
    /\ last = "start"

\* wrapper.wrap(text)
CallWrap ==
    /\ pc = "wrap"
    /\ wrapper' = TextWrapper(wrapper.text, wrapper.width, wrapper.initial_indent,
                              wrapper.subsequent_indent)
    /\ pc' = "wrapped"
    /\ last' = "wrap"
    /\ UNCHANGED <<tree, todo, pass, dirty, nid, frame>>

NextWrap == CallWrap

SpecWrap == InitWrap /\ [][NextWrap]_vars

(***************************************************************************)
(* Properties                                                              *)
(***************************************************************************)
\* The pivot of the statement fix_leaves is about to split: the last leaf
\* scanned with column < MAX_CHARS (NoPath when there is none).
Pivot == Scan(tree, frame.node).leaf

PivotChanged == pc = "leaves" /\ Pivot # NoPath /\ Get(tree, Pivot).was_changed

\* C10: when the pivot found by fix_leaves is already marked changed,
\* fix_leaves leaves the whole tree as it is: no prefix stripped, no leaf
\* inserted, no paren added, no node marked changed, and the parenthesizer is
\* not called.
C10_ChangedPivotIsNoOp ==
    [][PivotChanged => tree' = tree /\ nid' = nid /\ pc' = "match"]_vars

\* A pass after the first has come to a statement whose pivot was split before,
\* and fix_leaves has returned from it.
C10_Witness == last = "already_changed" /\ pass > 1 /\ dirty = FALSE

\* C5: transform completes without raising on every node match reported:
\* the driver never stops on an exception.
C5_TransformNeverRaises == pc # "raised"

\* C3: the driver comes to a pass that changes nothing within MaxPasses
\* passes; no further pass is ever due.
C3_DriverTerminates == pc # "more"

\* The physical lines of the rendered tree.
PhysicalLines(t) == Split(Render(t), "\n")

\* A line whose whole content is one token or word: no blank inside it.
SingleWord(line) == Count(Strip(line), " ") = 0

\* C1: once a pass has changed nothing, no physical line of the final tree is
\* longer than MAX_CHARS, except a line that is one single token or word.
C1_FinalWidth ==
    pc = "done" =>
        \A i \in 1..Len(PhysicalLines(tree)) :
            LET line == PhysicalLines(tree)[i]
            IN Len(line) <= MAX_CHARS \/ SingleWord(line)

\* How many brackets are open at the end of text.
Depth(text) ==
    Count(text, "(") + Count(text, "[") + Count(text, "{")
    - Count(text, ")") - Count(text, "]") - Count(text, "}")

\* The leaf with the given id lies between an opening bracket and its closing
\* bracket in the rendered tree.
Grouped(t, id) ==
    LET ls == LeavesOf(t, <<>>)
        i == CHOOSE j \in 1..Len(ls) : Get(t, ls[j]).id = id
        before == RenderLeaves(t, Slice(ls, 1, i - 1), 1) \o Get(t, ls[i]).prefix
    IN Depth(before) > 0 /\ Depth(Render(t)) = 0

\* The kind of the subtree fix_leaves is splitting.
SplitKind == Get(tree, frame.node).type

\* C2: when fix_leaves has put a NEWLINE leaf into a subtree of one of the
\* Parenthesizer's kinds, then, once fix_leaves is over, that leaf lies inside
\* a pair of brackets, one that was there or one the Parenthesizer has made.
C2_BreakInsideBrackets ==
    [][/\ (pc = "leaves" /\ last' = "split_inside" /\ SplitKind \in ParenKinds
             => Grouped(tree', nid))
       /\ (pc = "paren" /\ last' = "parenthesize" /\ SplitKind \in ParenKinds
             => Grouped(tree', nid - 2))]_vars

\* The text between the quotes of a literal that is not triple-quoted.
Content(literal) == Slice(literal, 2, Len(literal) - 1)

\* The literal fix_docstring was given, from the text "(literal)" it wrapped.
SplitLiteral == Slice(wrapper.text, 2, Len(wrapper.text) - 1)

\* The contents of the segments fix_docstring emitted for it, in order: line
\* 1 is "(" quote segment, a later line is indent quote segment, and the last
\* line ends with quote ")".
RECURSIVE SegmentContents(_, _)
SegmentContents(lines, i) ==
    IF i > Len(lines) THEN <<>>
    ELSE LET from == IF i = 1 THEN 3 ELSE Len(wrapper.subsequent_indent) + 1
             to == IF i = Len(lines) THEN Len(lines[i]) - 2 ELSE Len(lines[i])
         IN Slice(lines[i], from, to) \o SegmentContents(lines, i + 1)

IsQuote(c) == c \in {"'", "\""}

\* fix_docstring has just split a literal that starts with one quote.
SplitNonTriple ==
    /\ last = "fix_docstring"
    /\ Len(SplitLiteral) >= 2
    /\ IsQuote(SplitLiteral[1]) /\ ~IsQuote(SplitLiteral[2])

\* C4: when fix_docstring splits a literal that is not triple-quoted, the
\* contents of the emitted segments, concatenated in order, are the content
\* of the original literal.
C4_SplitKeepsValue ==
    SplitNonTriple => SegmentContents(wrapper.lines, 1) = Content(SplitLiteral)

\* The wrap rule for the subtree at hand, applied once and then once more to
\* what it gave, with the same flag.
WrappedOnce == parenthesize_parent(tree, frame.node, frame.breaking_on_func_call, nid)

WrappedTwice ==
    parenthesize_parent(WrappedOnce.tree, frame.node, frame.breaking_on_func_call,
                        WrappedOnce.nid)

\* C6: every wrap rule is idempotent: applied a second time to the subtree it
\* has wrapped, with the same flag, it changes nothing.
C6_WrapIdempotent ==
    pc = "paren" /\ SplitKind \in ParenKinds /\ ~WrappedOnce.err
        => ~WrappedTwice.err /\ WrappedTwice.tree = WrappedOnce.tree

\* What match is said to compute: a NEWLINE or COLON token with column >
\* MAX_CHARS, or a node with a line longer than MAX_CHARS in its prefix.
Violation(node) ==
    \/ IsLeaf(node) /\ node.type \in {"NEWLINE", "COLON"} /\ node.column > MAX_CHARS
    \/ HasLongLine(node)

\* C8: match(node) is true exactly when the node is a NEWLINE or COLON token
\* with column > MAX_CHARS or some line of its prefix is longer than MAX_CHARS.
C8_MatchIsUnion ==
    last \in {"match", "no_match"} =>
        ((last = "match") <=> Violation(Get(tree, IF last = "match" THEN Cur
                                                  ELSE Nodes(tree)[Len(Nodes(tree)) - todo])))

\* The leaf in front of the leaf with the given id, in document order; 0 when
\* it is the first.
IdBefore(t, id) ==
    LET ls == LeavesOf(t, <<>>)
        i == CHOOSE j \in 1..Len(ls) : Get(t, ls[j]).id = id
    IN IF i = 1 THEN 0 ELSE Get(t, ls[i - 1]).id

\* C9: fix_leaves puts the NEWLINE and INDENT leaves immediately after the
\* pivot, so that the pivot stays at the end of the original line.
C9_BreakAfterPivot ==
    [][pc = "leaves" /\ last' \in {"split_inside", "split_outside"}
         => IdBefore(tree', nid) = Get(tree, Pivot).id]_vars

\* The words of a text: its maximal runs without a blank.
WordsOf(text) == SelectSeq(Split(text, " "), LAMBDA w : w # <<>>)

\* The words of the lines the wrapper gave, indents left out, in order.
RECURSIVE LineWords(_, _)
LineWords(w, i) ==
    IF i > Len(w.lines) THEN <<>>
    ELSE LET indent == IF i = 1 THEN w.initial_indent ELSE w.subsequent_indent
         IN WordsOf(Slice(w.lines[i], Len(indent) + 1, Len(w.lines[i])))
            \o LineWords(w, i + 1)

\* The width left on a line beside the longer of the two indents.
Available(w) ==
    IF Len(w.initial_indent) > Len(w.subsequent_indent)
    THEN w.width - Len(w.initial_indent) ELSE w.width - Len(w.subsequent_indent)

HasLongWord(w) ==
    \E i \in 1..Len(WordsOf(w.text)) : Len(WordsOf(w.text)[i]) > Available(w)

\* wrap(text) has returned its lines.
HasWrapped == wrapper.made /\ ~wrapper.raised

====
